---- MODULE Spec2Model ----
(***************************************************************************)
(* Expense tracker (src/main.py): a single SQLite file holding the table   *)
(* "expenses", initialised by init_db and served by the three tools        *)
(* add_expense, list_expenses and summarize.                               *)
(*                                                                         *)
(* Strings are tuples of one-character strings, so that lower-casing,      *)
(* substring search and byte-wise (BINARY collation) comparison are        *)
(* computed rather than assumed.                                           *)
(***************************************************************************)
EXTENDS Integers, Sequences, FiniteSets, TLC

VARIABLES
    schema,     \* schema objects present in the database file
    rows,       \* committed rows of table expenses
    seq,        \* sqlite_sequence.seq for table expenses (AUTOINCREMENT)
    serving,    \* whether the process got past init_db and serves tools
    pc,         \* per in-flight add_expense call: "idle" or "executed"
    txn,        \* per call: the open (uncommitted) transaction
    ret,        \* what the last step returned to its caller (NoRet if nothing)
    issued      \* history: the ids successful add_expense calls have returned

vars == <<schema, rows, seq, serving, pc, txn, ret, issued>>

-----------------------------------------------------------------------------
(* Bounds *)

\* Largest rowid the model lets AUTOINCREMENT hand out.
MaxId == 4

Tasks == {"t1", "t2"}

-----------------------------------------------------------------------------
(* Characters and strings *)

ASCII_ORDER == <<" ","'","-",".","0","1","2","3","4","5","6","7","8","9",":","=","A","B","C","D","E","F","G","H","I","J","K","L","M","N","O","P","Q","R","S","T","U","V","W","X","Y","Z","a","b","c","d","e","f","g","h","i","j","k","l","m","n","o","p","q","r","s","t","u","v","w","x","y","z">>
UPPER == <<"A","B","C","D","E","F","G","H","I","J","K","L","M","N","O","P","Q","R","S","T","U","V","W","X","Y","Z">>
LOWER == <<"a","b","c","d","e","f","g","h","i","j","k","l","m","n","o","p","q","r","s","t","u","v","w","x","y","z">>
DIGITS == <<"0","1","2","3","4","5","6","7","8","9">>

Ord(c) == CHOOSE i \in 1..Len(ASCII_ORDER) : ASCII_ORDER[i] = c

\* str.lower() on one character
LowerChar(c) ==
    IF \E i \in 1..Len(UPPER) : UPPER[i] = c
    THEN LOWER[CHOOSE i \in 1..Len(UPPER) : UPPER[i] = c]
    ELSE c

\* str.lower()
Lower(s) == [i \in 1..Len(s) |-> LowerChar(s[i])]

\* needle in s
Contains(s, needle) ==
    \E i \in 0..(Len(s) - Len(needle)) :
        \A j \in 1..Len(needle) : s[i + j] = needle[j]

\* memcmp order of the BINARY collation: a < b
RECURSIVE StrLess(_, _)
StrLess(a, b) ==
    IF b = <<>> THEN FALSE
    ELSE IF a = <<>> THEN TRUE
    ELSE IF Head(a) = Head(b) THEN StrLess(Tail(a), Tail(b))
    ELSE Ord(Head(a)) < Ord(Head(b))

StrLeq(a, b) == a = b \/ StrLess(a, b)

IsDigit(c) == \E i \in 1..Len(DIGITS) : DIGITS[i] = c
DigitVal(c) == (CHOOSE i \in 1..Len(DIGITS) : DIGITS[i] = c) - 1

\* a non-empty run of decimal digits, the only numeric-looking text modelled
LooksNumeric(s) == s # <<>> /\ \A i \in 1..Len(s) : IsDigit(s[i])

RECURSIVE DecimalValue(_)
DecimalValue(s) ==
    IF s = <<>> THEN 0
    ELSE 10 * DecimalValue(SubSeq(s, 1, Len(s) - 1)) + DigitVal(s[Len(s)])

-----------------------------------------------------------------------------
(* String constants of the program and of the sqlite3 library *)

READONLY_NEEDLE == <<"r","e","a","d","o","n","l","y">>
MSG_READONLY == <<"a","t","t","e","m","p","t"," ","t","o"," ","w","r","i","t","e"," ","a"," ","r","e","a","d","o","n","l","y"," ","d","a","t","a","b","a","s","e">>
MSG_LOCKED == <<"d","a","t","a","b","a","s","e"," ","i","s"," ","l","o","c","k","e","d">>
MSG_FULL == <<"d","a","t","a","b","a","s","e"," ","o","r"," ","d","i","s","k"," ","i","s"," ","f","u","l","l">>
MSG_IOERR == <<"d","i","s","k"," ","I","/","O"," ","e","r","r","o","r">>
MSG_NOTNULL_PREFIX == <<"N","O","T"," ","N","U","L","L"," ","c","o","n","s","t","r","a","i","n","t"," ","f","a","i","l","e","d",":"," ","e","x","p","e","n","s","e","s",".">>
MSG_BIND_PREFIX == <<"E","r","r","o","r"," ","b","i","n","d","i","n","g"," ","p","a","r","a","m","e","t","e","r"," ">>
MSG_BIND_SUFFIX == <<":"," ","t","y","p","e"," ","'","l","i","s","t","'"," ","i","s"," ","n","o","t"," ","s","u","p","p","o","r","t","e","d">>
MSG_READONLY_PAYLOAD == <<"D","a","t","a","b","a","s","e"," ","i","s"," ","i","n"," ","r","e","a","d","-","o","n","l","y"," ","m","o","d","e","."," ","C","h","e","c","k"," ","f","i","l","e"," ","p","e","r","m","i","s","s","i","o","n","s",".">>
MSG_DB_ERROR_PREFIX == <<"D","a","t","a","b","a","s","e"," ","e","r","r","o","r",":"," ">>
MSG_LIST_ERROR_PREFIX == <<"E","r","r","o","r"," ","l","i","s","t","i","n","g"," ","e","x","p","e","n","s","e","s",":"," ">>
MSG_SUM_ERROR_PREFIX == <<"E","r","r","o","r"," ","s","u","m","m","a","r","i","z","i","n","g"," ","e","x","p","e","n","s","e","s",":"," ">>
MSG_ADDED == <<"E","x","p","e","n","s","e"," ","a","d","d","e","d"," ","s","u","c","c","e","s","s","f","u","l","l","y">>
COL_DATE == <<"d","a","t","e">>
COL_AMOUNT == <<"a","m","o","u","n","t">>
COL_CATEGORY == <<"c","a","t","e","g","o","r","y">>
TEST_DATE == <<"2","0","0","0","-","0","1","-","0","1">>
TEST_CATEGORY == <<"t","e","s","t">>

\* sample caller strings
D0101 == <<"2","0","2","4","-","0","1","-","0","1">>
D0102 == <<"2","0","2","4","-","0","1","-","0","2">>
D0103 == <<"2","0","2","4","-","0","1","-","0","3">>
S_Food == <<"F","o","o","d">>
S_Travel == <<"T","r","a","v","e","l">>
S_Other == <<"O","t","h","e","r">>
S_Inject == <<"x","'"," ","O","R"," ","'","1","'","=","'","1">>
S_abc == <<"a","b","c">>
S_lunch == <<"l","u","n","c","h">>

-----------------------------------------------------------------------------
(* Python values (tool arguments and results) and SQLite values *)

PyNone == [t |-> "none", s |-> <<>>, n |-> 0]
PyOmitted == [t |-> "omitted", s |-> <<>>, n |-> 0]
PyList == [t |-> "list", s |-> <<>>, n |-> 0]
PyStr(s) == [t |-> "str", s |-> s, n |-> 0]
PyInt(n) == [t |-> "int", s |-> <<>>, n |-> n]
PyFloat(n) == [t |-> "float", s |-> <<>>, n |-> n]

SqlNull == [t |-> "null", s |-> <<>>, n |-> 0]
SqlText(s) == [t |-> "text", s |-> s, n |-> 0]
SqlInteger(n) == [t |-> "integer", s |-> <<>>, n |-> n]
SqlReal(n) == [t |-> "real", s |-> <<>>, n |-> n]

\* Python == on the values modelled: int and float compare by value
PyEq(a, b) ==
    IF a.t \in {"int", "float"} /\ b.t \in {"int", "float"}
    THEN a.n = b.n
    ELSE a = b

\* Python truthiness (if category:)
Truthy(v) ==
    CASE v.t = "none" -> FALSE
      [] v.t = "str" -> v.s # <<>>
      [] v.t \in {"int", "float"} -> v.n # 0
      [] OTHER -> FALSE

\* sqlite3 adapts only None, int, float, str (and bytes) to SQLite values
Bindable(v) == v.t \in {"none", "str", "int", "float"}

Bind(v) ==
    CASE v.t = "none" -> SqlNull
      [] v.t = "str" -> SqlText(v.s)
      [] v.t = "int" -> SqlInteger(v.n)
      [] v.t = "float" -> SqlReal(v.n)

\* a column value handed back by fetchall
FromSql(x) ==
    CASE x.t = "null" -> PyNone
      [] x.t = "text" -> PyStr(x.s)
      [] x.t = "integer" -> PyInt(x.n)
      [] x.t = "real" -> PyFloat(x.n)

-----------------------------------------------------------------------------
(* The table: CREATE TABLE IF NOT EXISTS expenses(...) *)

\* schema objects of an initialised file; sqlite_sequence comes with
\* AUTOINCREMENT
SchemaObjects == {"expenses", "sqlite_sequence"}

CreateTableIfNotExists(sch) ==
    IF "expenses" \in sch THEN sch ELSE sch \cup SchemaObjects

RECURSIVE IntToStr(_)
IntToStr(n) ==
    IF n < 0 THEN <<"-">> \o IntToStr(0 - n)
    ELSE IF n < 10 THEN <<DIGITS[n + 1]>>
    ELSE IntToStr(n \div 10) \o <<DIGITS[(n % 10) + 1]>>

\* column affinity REAL (amount)
RealAffinity(x) ==
    CASE x.t = "integer" -> SqlReal(x.n)
      [] x.t = "text" /\ LooksNumeric(x.s) -> SqlReal(DecimalValue(x.s))
      [] OTHER -> x

\* column affinity TEXT (date, category, subcategory, note)
TextAffinity(x) ==
    CASE x.t = "integer" -> SqlText(IntToStr(x.n))
      [] x.t = "real" -> SqlText(IntToStr(x.n) \o <<".", "0">>)
      [] OTHER -> x

Max(a, b) == IF a >= b THEN a ELSE b

MaxRowid(rs) ==
    IF rs = {} THEN 0 ELSE CHOOSE m \in {r.id : r \in rs} : \A r \in rs : r.id <= m

\* rowid of a plain INTEGER PRIMARY KEY: one more than the largest present
NextRowid_NoAutoincrement(rs, sq) == MaxRowid(rs) + 1

\* rowid of INTEGER PRIMARY KEY AUTOINCREMENT: one more than the largest
\* rowid the table ever held, which sqlite_sequence remembers
NextRowid(rs, sq) == Max(sq, MaxRowid(rs)) + 1

\* first NOT NULL column, in column order, that a row leaves NULL; <<>> if none
NotNullViolation(date, amount, category) ==
    IF date.t = "null" THEN COL_DATE
    ELSE IF amount.t = "null" THEN COL_AMOUNT
    ELSE IF category.t = "null" THEN COL_CATEGORY
    ELSE <<>>

\* an INSERT whose last two parameters are bound the wrong way round
StoredRow_Swapped(id, v) ==
    [id |-> id,
     date |-> TextAffinity(v[1]),
     amount |-> RealAffinity(v[2]),
     category |-> TextAffinity(v[3]),
     subcategory |-> TextAffinity(v[5]),
     note |-> TextAffinity(v[4])]

\* the row INSERT INTO expenses(date, amount, category, subcategory, note)
\* stores for the bound values v, under rowid id
StoredRow(id, v) ==
    [id |-> id,
     date |-> TextAffinity(v[1]),
     amount |-> RealAffinity(v[2]),
     category |-> TextAffinity(v[3]),
     subcategory |-> TextAffinity(v[4]),
     note |-> TextAffinity(v[5])]

\* the row of init_db's write test: subcategory and note take DEFAULT ''
TestRow(id) ==
    [id |-> id,
     date |-> SqlText(TEST_DATE),
     amount |-> RealAffinity(SqlInteger(0)),
     category |-> SqlText(TEST_CATEGORY),
     subcategory |-> SqlText(<<>>),
     note |-> SqlText(<<>>)]

\* DELETE FROM expenses WHERE category = 'test'
DeleteTestRows(rs) == {r \in rs : r.category # SqlText(TEST_CATEGORY)}

-----------------------------------------------------------------------------
(* Queries *)

\* x <= y for stored/bound values; NULL compares as unknown (not true).
\* Only TEXT against TEXT occurs: the date column has TEXT affinity and a
\* bound parameter compared with it takes that affinity.
SqlLeq(x, y) ==
    /\ x.t = "text"
    /\ y.t = "text"
    /\ StrLeq(x.s, y.s)

\* a range that leaves out its upper bound
DateBetween_UpperExclusive(r, lo, hi) ==
    /\ SqlLeq(TextAffinity(lo), r.date)
    /\ SqlLeq(r.date, TextAffinity(hi))
    /\ r.date # TextAffinity(hi)

\* date BETWEEN ? AND ?
DateBetween(r, lo, hi) ==
    /\ SqlLeq(TextAffinity(lo), r.date)
    /\ SqlLeq(r.date, TextAffinity(hi))

\* r sorts before q under ORDER BY date ASC, id ASC
ComesFirst_IdAsc(r, q) ==
    \/ StrLess(q.date.s, r.date.s)
    \/ (r.date = q.date /\ r.id < q.id)

\* r sorts before q under ORDER BY date DESC, id DESC
ComesFirst(r, q) ==
    \/ StrLess(q.date.s, r.date.s)
    \/ (r.date = q.date /\ r.id > q.id)

\* dict(zip(cols, r)) for SELECT id, date, amount, category, subcategory, note
RowDict(r) ==
    [id |-> r.id,
     date |-> FromSql(r.date),
     amount |-> FromSql(r.amount),
     category |-> FromSql(r.category),
     subcategory |-> FromSql(r.subcategory),
     note |-> FromSql(r.note)]

\* the rows of rs in the order of ORDER BY date DESC, id DESC, each as the
\* dict that list_expenses returns for it
RECURSIVE OrderRows(_)
OrderRows(rs) ==
    IF rs = {} THEN <<>>
    ELSE LET first == CHOOSE r \in rs : \A q \in rs \ {r} : ComesFirst(r, q)
         IN  <<RowDict(first)>> \o OrderRows(rs \ {first})

\* the rows list_expenses fetches from snapshot rs
ListQuery(rs, start, end) ==
    OrderRows({r \in rs : DateBetween(r, Bind(start), Bind(end))})

-----------------------------------------------------------------------------
(* summarize: statement construction and evaluation *)

Q_SELECT == "SELECT category, SUM(amount) AS total_amount, COUNT(*) AS count FROM expenses WHERE date BETWEEN ? AND ?"
Q_AND_CATEGORY == " AND category = ?"
Q_GROUP_ORDER == " GROUP BY category ORDER BY total_amount DESC"

\* a faulty builder that splices the category into the statement text
SummarizeStatement_Spliced(start, end, category) ==
    IF Truthy(category)
    THEN [text |-> <<Q_SELECT, " AND category = '">> \o category.s \o <<"'", Q_GROUP_ORDER>>,
          params |-> <<start, end>>]
    ELSE [text |-> <<Q_SELECT, Q_GROUP_ORDER>>, params |-> <<start, end>>]

\* the statement text (the fragments concatenated, in order) and the bound
\* parameters that summarize hands to execute
SummarizeStatement(start, end, category) ==
    IF Truthy(category)
    THEN [text |-> <<Q_SELECT, Q_AND_CATEGORY, Q_GROUP_ORDER>>,
          params |-> <<start, end, category>>]
    ELSE [text |-> <<Q_SELECT, Q_GROUP_ORDER>>,
          params |-> <<start, end>>]

\* what SUM() adds for one stored amount: text that is not numeric counts 0
SumOperand(x) == IF x.t \in {"real", "integer"} THEN x.n ELSE 0

RECURSIVE SumAmounts(_)
SumAmounts(rs) ==
    IF rs = {} THEN 0
    ELSE LET r == CHOOSE r \in rs : TRUE
         IN  SumOperand(r.amount) + SumAmounts(rs \ {r})

\* one result row per group of GROUP BY category
GroupEntries(hit) ==
    {[category |-> FromSql(c),
      total_amount |-> PyFloat(SumAmounts({r \in hit : r.category = c})),
      count |-> Cardinality({r \in hit : r.category = c})]
        : c \in {r.category : r \in hit}}

\* every arrangement of es
Arrangements(es) ==
    {p \in [1..Cardinality(es) -> es] : \A i, j \in DOMAIN p : i # j => p[i] # p[j]}

\* arrangements allowed by ORDER BY total_amount ASC
OrderedByTotal_Asc(es) ==
    {p \in Arrangements(es) :
        \A i, j \in DOMAIN p : i < j => p[i].total_amount.n <= p[j].total_amount.n}

\* arrangements allowed by ORDER BY total_amount DESC; the order among equal
\* totals is not determined by the statement
OrderedByTotal(es) ==
    {p \in Arrangements(es) :
        \A i, j \in DOMAIN p : i < j => p[i].total_amount.n >= p[j].total_amount.n}

\* WHERE clause of statement q on row r; the category column has TEXT
\* affinity, which the bound parameter compared with it takes
StatementWhere(q, r) ==
    /\ DateBetween(r, Bind(q.params[1]), Bind(q.params[2]))
    /\ \A i \in 1..Len(q.text) :
           q.text[i] = Q_AND_CATEGORY => r.category = TextAffinity(Bind(q.params[3]))

\* the result lists execute + fetchall may produce for q on snapshot rs
SummarizeQuery(rs, q) ==
    OrderedByTotal(GroupEntries({r \in rs : StatementWhere(q, r)}))

-----------------------------------------------------------------------------
(* Failures of the storage layer *)

\* conditions of the file system at the time of a call
WriteFaults == {"none", "readonly", "full", "ioerr"}
CommitFaults == {"none", "full", "ioerr"}
ReadFaults == {"none", "ioerr"}

\* str(e) of the exception sqlite3 raises for a storage condition
FaultMessage(f) ==
    CASE f = "readonly" -> MSG_READONLY
      [] f = "locked" -> MSG_LOCKED
      [] f = "full" -> MSG_FULL
      [] f = "ioerr" -> MSG_IOERR

\* the exception, if any, of executing the INSERT with Python values v:
\* parameters are bound first, then the statement takes the write lock
\* (busy = another connection holds it past the busy timeout), then the row
\* is checked against the NOT NULL columns
InsertError(v, fault, busy) ==
    LET bad == {i \in 1..Len(v) : ~Bindable(v[i])}
        col == NotNullViolation(Bind(v[1]), Bind(v[2]), Bind(v[3]))
    IN  IF bad # {}
        THEN [cause |-> "bind",
              message |-> MSG_BIND_PREFIX
                          \o IntToStr(CHOOSE i \in bad : \A j \in bad : i <= j)
                          \o MSG_BIND_SUFFIX]
        ELSE IF fault = "readonly"
        THEN [cause |-> "readonly", message |-> FaultMessage("readonly")]
        ELSE IF busy
        THEN [cause |-> "locked", message |-> FaultMessage("locked")]
        ELSE IF fault # "none"
        THEN [cause |-> fault, message |-> FaultMessage(fault)]
        ELSE IF col # <<>>
        THEN [cause |-> "notnull", message |-> MSG_NOTNULL_PREFIX \o col]
        ELSE [cause |-> "none", message |-> <<>>]

-----------------------------------------------------------------------------
(* Responses *)

NoRet ==
    [op |-> "none", task |-> "", args |-> <<>>, status |-> "", cause |-> "",
     id |-> 0, message |-> <<>>, value |-> <<>>, sql |-> <<>>]

Response(op, t, args, status, cause, id, message, value, sql) ==
    [op |-> op, task |-> t, args |-> args, status |-> status, cause |-> cause,
     id |-> id, message |-> message, value |-> value, sql |-> sql]

\* an except handler that tells nothing apart
AddErrorMessage_AlwaysGeneric(e) == MSG_DB_ERROR_PREFIX \o e

\* the message of add_expense's except handler for exception text e
AddErrorMessage(e) ==
    IF Contains(Lower(e), READONLY_NEEDLE)
    THEN MSG_READONLY_PAYLOAD
    ELSE MSG_DB_ERROR_PREFIX \o e

\* a parameter with default "" as the function body sees it
OrDefault(v) == IF v = PyOmitted THEN PyStr(<<>>) ELSE v

\* the tuple add_expense binds to (?,?,?,?,?)
InsertParams(a) ==
    <<a.date, a.amount, a.category, OrDefault(a.subcategory), OrDefault(a.note)>>

BindAll(v) == [i \in 1..Len(v) |-> Bind(v[i])]

-----------------------------------------------------------------------------
(* Transactions *)

NoRow ==
    [id |-> 0, date |-> SqlNull, amount |-> SqlNull, category |-> SqlNull,
     subcategory |-> SqlNull, note |-> SqlNull]

NoTxn == [open |-> FALSE, row |-> NoRow, args |-> <<>>]

WriteLockHeld == \E u \in Tasks : txn[u].open

\* a reader that also sees rows of open transactions
Snapshot_ReadUncommitted(rs, tx) == rs \cup {tx[u].row : u \in {w \in Tasks : tx[w].open}}

\* what a reading connection sees: the committed rows only
Snapshot(rs, tx) == rs

\* the table after a connection closes with its transaction uncommitted
AfterRollback(rs, row) == rs

AfterCommit(rs, row) == rs \cup {row}

-----------------------------------------------------------------------------
(* Tool arguments tried *)

Call(date, amount, category, subcategory, note) ==
    [date |-> date, amount |-> amount, category |-> category,
     subcategory |-> subcategory, note |-> note]

ValidCalls ==
    {Call(PyStr(D0101), PyInt(10), PyStr(S_Food), PyOmitted, PyOmitted),
     Call(PyStr(D0103), PyFloat(5), PyStr(S_Food), PyStr(S_lunch), PyOmitted),
     Call(PyStr(D0102), PyInt(20), PyStr(S_Travel), PyOmitted, PyStr(S_lunch)),
     Call(PyStr(D0102), PyInt(5), PyStr(TEST_CATEGORY), PyOmitted, PyOmitted)}

InvalidCalls ==
    {Call(PyNone, PyInt(10), PyStr(S_Food), PyOmitted, PyOmitted),
     Call(PyStr(D0101), PyNone, PyStr(S_Food), PyOmitted, PyOmitted),
     Call(PyStr(D0101), PyInt(10), PyNone, PyOmitted, PyOmitted),
     Call(PyStr(D0101), PyStr(S_abc), PyStr(S_Food), PyOmitted, PyOmitted),
     Call(PyStr(D0101), PyList, PyStr(S_Food), PyOmitted, PyOmitted)}

AddCalls == ValidCalls \cup InvalidCalls

DateArgs == {PyStr(D0101), PyStr(D0102), PyStr(D0103)}

SummarizeRanges ==
    {<<PyStr(D0101), PyStr(D0103)>>, <<PyStr(D0102), PyStr(D0102)>>,
     <<PyStr(D0102), PyStr(D0103)>>, <<PyStr(D0103), PyStr(D0101)>>}

CategoryArgs ==
    {PyNone, PyStr(<<>>), PyStr(S_Food), PyStr(S_Other), PyStr(S_Inject)}

-----------------------------------------------------------------------------
(* Steps *)

Init ==
    /\ schema = {}
    /\ rows = {}
    /\ seq = 0
    /\ serving = FALSE
    /\ pc = [t \in Tasks |-> "idle"]
    /\ txn = [t \in Tasks |-> NoTxn]
    /\ ret = NoRet
    /\ issued = {}

\* Process start: init_db() at import.  Calls of an earlier process are gone
\* and their open transactions with them.  The connection's context manager
\* commits CREATE, INSERT and DELETE together; any exception is re-raised and
\* the process does not come up.
init_db(fault) ==
    /\ ret = NoRet
    /\ UNCHANGED issued
    /\ pc' = [t \in Tasks |-> "idle"]
    /\ txn' = [t \in Tasks |-> NoTxn]
    /\ IF fault # "none"
       THEN /\ serving' = FALSE
            /\ ret' = Response("init_db", "", <<>>, "error", fault, 0,
                               FaultMessage(fault), <<>>, <<>>)
            /\ UNCHANGED <<schema, rows, seq>>
       ELSE /\ NextRowid(rows, seq) <= MaxId
            /\ schema' = CreateTableIfNotExists(schema)
            /\ rows' = DeleteTestRows(rows \cup {TestRow(NextRowid(rows, seq))})
            /\ seq' = NextRowid(rows, seq)
            /\ serving' = TRUE
            /\ ret' = Response("init_db", "", <<>>, "success", "none", 0,
                               <<>>, <<>>, <<>>)

\* add_expense up to and including "await c.execute(INSERT ...)": on an
\* exception the handler returns the error payload, otherwise the call holds
\* an open transaction with the new row
AddExecute(t, a, fault) ==
    /\ ret = NoRet
    /\ serving
    /\ pc[t] = "idle"
    /\ LET v == InsertParams(a)
           err == InsertError(v, fault, WriteLockHeld)
       IN  IF err.cause # "none"
           THEN /\ ret' = Response("add_expense", t, a, "error", err.cause, 0,
                                   AddErrorMessage(err.message), <<>>, <<>>)
                /\ UNCHANGED <<schema, rows, seq, serving, pc, txn, issued>>
           ELSE /\ NextRowid(rows, seq) <= MaxId
                /\ pc' = [pc EXCEPT ![t] = "executed"]
                /\ txn' = [txn EXCEPT ![t] =
                              [open |-> TRUE,
                               row |-> StoredRow(NextRowid(rows, seq), BindAll(v)),
                               args |-> a]]
                /\ ret' = NoRet
                /\ UNCHANGED <<schema, rows, seq, serving, issued>>

\* add_expense from "await c.commit()" to its return: the success payload
\* with cur.lastrowid, or the handler's payload after the connection closed
AddCommit(t, fault) ==
    /\ ret = NoRet
    /\ serving
    /\ pc[t] = "executed"
    /\ pc' = [pc EXCEPT ![t] = "idle"]
    /\ txn' = [txn EXCEPT ![t] = NoTxn]
    /\ IF fault = "none"
       THEN /\ rows' = AfterCommit(rows, txn[t].row)
            /\ seq' = txn[t].row.id
            /\ issued' = issued \cup {txn[t].row.id}
            /\ ret' = Response("add_expense", t, txn[t].args, "success", "none",
                               txn[t].row.id, MSG_ADDED, <<>>, <<>>)
       ELSE /\ rows' = AfterRollback(rows, txn[t].row)
            /\ seq' = seq
            /\ UNCHANGED issued
            /\ ret' = Response("add_expense", t, txn[t].args, "error", fault, 0,
                               AddErrorMessage(FaultMessage(fault)), <<>>, <<>>)
    /\ UNCHANGED <<schema, serving>>

\* list_expenses, on a connection of its own: one SELECT on the snapshot the
\* connection sees, whatever other calls are in flight
list_expenses(start, end, fault) ==
    /\ ret = NoRet
    /\ serving
    /\ ret' = IF fault # "none"
              THEN Response("list_expenses", "", <<start, end>>, "error", fault, 0,
                            MSG_LIST_ERROR_PREFIX \o FaultMessage(fault), <<>>, <<>>)
              ELSE Response("list_expenses", "", <<start, end>>, "ok", "none", 0,
                            <<>>, ListQuery(Snapshot(rows, txn), start, end), <<>>)
    /\ UNCHANGED <<schema, rows, seq, serving, pc, txn, issued>>

\* summarize, on a connection of its own
summarize(start, end, category, fault) ==
    /\ ret = NoRet
    /\ serving
    /\ LET q == SummarizeStatement(start, end, category)
       IN  IF fault # "none"
           THEN ret' = Response("summarize", "", <<start, end, category>>, "error",
                                fault, 0,
                                MSG_SUM_ERROR_PREFIX \o FaultMessage(fault),
                                <<>>, q.text)
           ELSE \E res \in SummarizeQuery(Snapshot(rows, txn), q) :
                    ret' = Response("summarize", "", <<start, end, category>>, "ok",
                                    "none", 0, <<>>, res, q.text)
    /\ UNCHANGED <<schema, rows, seq, serving, pc, txn, issued>>

\* the transport hands the response of the last step to the client
Deliver ==
    /\ ret # NoRet
    /\ ret' = NoRet
    /\ UNCHANGED <<schema, rows, seq, serving, pc, txn, issued>>

Next ==
    \/ \E f \in {"none", "readonly"} : init_db(f)
    \/ \E t \in Tasks, a \in AddCalls, f \in WriteFaults : AddExecute(t, a, f)
    \/ \E t \in Tasks, f \in CommitFaults : AddCommit(t, f)
    \/ \E s \in DateArgs, e \in DateArgs, f \in ReadFaults : list_expenses(s, e, f)
    \/ \E r \in SummarizeRanges, c \in CategoryArgs, f \in ReadFaults :
           summarize(r[1], r[2], c, f)
    \/ Deliver

Spec == Init /\ [][Next]_vars

-----------------------------------------------------------------------------
(* Vocabulary of the properties *)

AddReturned(r) == r.op = "add_expense"
AddSucceeded(r) == r.op = "add_expense" /\ r.status = "success"
AddFailed(r) == r.op = "add_expense" /\ r.status = "error"
ListReturned(r) == r.op = "list_expenses" /\ r.status = "ok"
SummarizeReturned(r) == r.op = "summarize" /\ r.status = "ok"

\* start <= d <= end as strings
InRange(d, start, end) == StrLeq(start, d) /\ StrLeq(d, end)

\* the stored rows dated within [start, end]
RowsInRange(start, end) == {r \in rows : InRange(r.date.s, start.s, end.s)}

-----------------------------------------------------------------------------
(* C1 *)

\* C1: running init_db on an initialised store leaves the schema and the set
\* of stored rows exactly as they were, whatever add_expense stored before.
C1_InitKeepsSchemaAndRows ==
    [][(schema # {} /\ ret'.op = "init_db") => (schema' = schema /\ rows' = rows)]_vars

-----------------------------------------------------------------------------
(* C2 *)

\* C2: every successful add_expense returns an id greater than every id
\* returned or assigned before (never reused, also after rows were removed),
\* which is the id of the one row it stored; and no step changes a stored row
\* while keeping it (a row of the next state either is an unchanged row of
\* this state or carries an id never assigned before).
C2_IdsFreshAndStable ==
    [][/\ AddSucceeded(ret') =>
            /\ \A i \in issued : ret'.id > i
            /\ \A r \in rows : ret'.id > r.id
            /\ ret'.id > seq
            /\ \E r \in rows' \ rows :
                   /\ r.id = ret'.id
                   /\ rows' = rows \cup {r}
       /\ \A r \in rows' : r \in rows \/ (r.id > seq /\ \A i \in issued : r.id > i)
      ]_vars

\* two successful adds, a restart that consumed an id in between
C2_Witness ==
    /\ AddSucceeded(ret)
    /\ Cardinality(issued) >= 2
    /\ \E i \in 1..MaxId : i < ret.id /\ i \notin issued /\ i > 1
    /\ \E r \in rows : r.id = ret.id

-----------------------------------------------------------------------------
(* C3 *)

\* the call is valid: date and category non-empty strings, amount a number
ValidCall(a) ==
    /\ a.date.t = "str" /\ a.date.s # <<>>
    /\ a.category.t = "str" /\ a.category.s # <<>>
    /\ a.amount.t \in {"int", "float"}

Given(v) == IF v = PyOmitted THEN PyStr(<<>>) ELSE v

\* C3: right after a successful add_expense with valid arguments, every
\* list_expenses over a range covering its date returns exactly one row with
\* the returned id, whose fields equal the arguments, subcategory and note
\* being the empty string where omitted.
C3_RoundTrip ==
    (AddSucceeded(ret) /\ ValidCall(ret.args)) =>
        \A s \in DateArgs, e \in DateArgs :
            InRange(ret.args.date.s, s.s, e.s) =>
                LET res == ListQuery(Snapshot(rows, txn), s, e)
                    at == {i \in DOMAIN res : res[i].id = ret.id}
                IN  /\ Cardinality(at) = 1
                    /\ \A i \in at :
                           /\ PyEq(res[i].date, ret.args.date)
                           /\ PyEq(res[i].amount, ret.args.amount)
                           /\ PyEq(res[i].category, ret.args.category)
                           /\ PyEq(res[i].subcategory, Given(ret.args.subcategory))
                           /\ PyEq(res[i].note, Given(ret.args.note))

\* a valid add with subcategory given and note omitted, into a non-empty store
C3_Witness ==
    /\ AddSucceeded(ret)
    /\ ValidCall(ret.args)
    /\ ret.args.subcategory # PyOmitted
    /\ ret.args.note = PyOmitted
    /\ Cardinality(rows) >= 2

-----------------------------------------------------------------------------
(* C4 *)

\* C4: list_expenses(start, end) returns exactly the stored rows whose date d
\* has start <= d <= end as strings, each once and with its stored fields; it
\* fails only on a storage failure, so with no matching row (start > end
\* included) the result is the empty sequence.
C4_ExactInclusiveRange ==
    /\ ListReturned(ret) =>
          LET hit == RowsInRange(ret.args[1], ret.args[2])
          IN  /\ Len(ret.value) = Cardinality(hit)
              /\ {ret.value[i] : i \in DOMAIN ret.value} = {RowDict(r) : r \in hit}
              /\ (hit = {} => ret.value = <<>>)
    /\ (ret.op = "list_expenses" /\ ret.cause = "none") => ret.status = "ok"

\* a row dated exactly start and one dated exactly end are returned while a
\* row one day before start stays out
C4_Witness ==
    /\ ListReturned(ret)
    /\ ret.args[1] = PyStr(D0102)
    /\ ret.args[2] = PyStr(D0103)
    /\ \E i \in DOMAIN ret.value : ret.value[i].date = PyStr(D0102)
    /\ \E i \in DOMAIN ret.value : ret.value[i].date = PyStr(D0103)
    /\ \E r \in rows : r.date = SqlText(D0101)

-----------------------------------------------------------------------------
(* C5 *)

\* C5: consecutive rows r1, r2 of a list_expenses result have r1.date >
\* r2.date, or equal dates and r1.id > r2.id.
C5_DateDescIdDesc ==
    ListReturned(ret) =>
        \A i \in 1..(Len(ret.value) - 1) :
            LET r1 == ret.value[i]
                r2 == ret.value[i + 1]
            IN  \/ StrLess(r2.date.s, r1.date.s)
                \/ (r1.date = r2.date /\ r1.id > r2.id)

\* rows dated 01-01, 01-03, 01-02 inserted in that order come back as
\* 01-03, 01-02, 01-01
C5_Witness ==
    /\ ListReturned(ret)
    /\ Len(ret.value) = 3
    /\ ret.value[1].date = PyStr(D0103)
    /\ ret.value[2].date = PyStr(D0102)
    /\ ret.value[3].date = PyStr(D0101)
    /\ ret.value[3].id < ret.value[1].id
    /\ ret.value[1].id < ret.value[2].id

-----------------------------------------------------------------------------
(* C6 *)

\* the number a listed amount contributes to a total (text that is not a
\* number contributes nothing)
AmountOf(v) == IF v.t \in {"int", "float"} THEN v.n ELSE 0

\* total of the amounts of category c in a list_expenses result
RECURSIVE ListedTotal(_, _)
ListedTotal(res, c) ==
    IF res = <<>> THEN 0
    ELSE (IF Head(res).category = c THEN AmountOf(Head(res).amount) ELSE 0)
         + ListedTotal(Tail(res), c)

ListedCount(res, c) == Cardinality({i \in DOMAIN res : res[i].category = c})

RECURSIVE CountTotal(_)
CountTotal(v) == IF v = <<>> THEN 0 ELSE Head(v).count + CountTotal(Tail(v))

\* C6: summarize without a category returns one entry per distinct category
\* with a row in the range, carrying the sum of the amounts and the number of
\* those rows, ordered by total_amount descending; the counts add up to the
\* length of list_expenses for the same range.
C6_GroupedTotals ==
    (SummarizeReturned(ret) /\ ret.args[3] = PyNone) =>
        LET listed == ListQuery(Snapshot(rows, txn), ret.args[1], ret.args[2])
            cats == {listed[i].category : i \in DOMAIN listed}
            v == ret.value
        IN  /\ {v[i].category : i \in DOMAIN v} = cats
            /\ Len(v) = Cardinality(cats)
            /\ \A i \in DOMAIN v :
                   /\ v[i].total_amount.n = ListedTotal(listed, v[i].category)
                   /\ v[i].count = ListedCount(listed, v[i].category)
                   /\ v[i].count >= 1
            /\ \A i \in 1..(Len(v) - 1) : v[i].total_amount.n >= v[i + 1].total_amount.n
            /\ CountTotal(v) = Len(listed)

\* {Food,10}, {Food,5}, {Travel,20} give [{Travel,20,1}, {Food,15,2}]
C6_Witness ==
    /\ SummarizeReturned(ret)
    /\ ret.args[3] = PyNone
    /\ ret.value = <<[category |-> PyStr(S_Travel), total_amount |-> PyFloat(20), count |-> 1],
                     [category |-> PyStr(S_Food), total_amount |-> PyFloat(15), count |-> 2]>>

-----------------------------------------------------------------------------
(* C7 *)

NonEmptyString(v) == v.t = "str" /\ v.s # <<>>

\* C7: with a non-empty category c the result is the entries for c of an
\* unfiltered summarize over the same range (at most one, none if no row
\* matches); with category absent or empty nothing is filtered; and the
\* statement text is one of two fixed texts, chosen by whether the category
\* is non-empty.
C7_FilterThenGroup ==
    SummarizeReturned(ret) =>
        LET c == ret.args[3]
            whole == SummarizeQuery(Snapshot(rows, txn),
                                    SummarizeStatement(ret.args[1], ret.args[2], PyNone))
            hit == RowsInRange(ret.args[1], ret.args[2])
        IN  /\ NonEmptyString(c) =>
                  /\ \E w \in whole :
                         ret.value = SelectSeq(w, LAMBDA e : e.category = c)
                  /\ Len(ret.value) <= 1
                  /\ (ret.value = <<>>) <=> (\A r \in hit : r.category # SqlText(c.s))
                  /\ ret.sql = <<Q_SELECT, Q_AND_CATEGORY, Q_GROUP_ORDER>>
            /\ ~NonEmptyString(c) =>
                  /\ ret.value \in whole
                  /\ {ret.value[i].category : i \in DOMAIN ret.value}
                         = {FromSql(r.category) : r \in hit}
                  /\ ret.sql = <<Q_SELECT, Q_GROUP_ORDER>>

\* category Food picks the Food group out of two groups in the range
C7_Witness ==
    /\ SummarizeReturned(ret)
    /\ ret.args[3] = PyStr(S_Food)
    /\ Len(ret.value) = 1
    /\ ret.value[1].count = 2
    /\ \E r \in RowsInRange(ret.args[1], ret.args[2]) : r.category = SqlText(S_Travel)

-----------------------------------------------------------------------------
(* C8 *)

StartsWith(s, prefix) ==
    Len(s) >= Len(prefix) /\ SubSeq(s, 1, Len(prefix)) = prefix

\* C8: when add_expense fails because the file cannot be written, the payload
\* is the read-only one and not the generic one; on every other failure it is
\* the generic "Database error: ..." one and not the read-only one; either
\* way the call returns status "error" with a message.
C8_ReadOnlyToldApart ==
    /\ AddReturned(ret) => ret.status \in {"success", "error"}
    /\ AddFailed(ret) =>
          /\ ret.message # <<>>
          /\ ret.cause = "readonly" =>
                 /\ ret.message = MSG_READONLY_PAYLOAD
                 /\ ~StartsWith(ret.message, MSG_DB_ERROR_PREFIX)
          /\ ret.cause # "readonly" =>
                 /\ StartsWith(ret.message, MSG_DB_ERROR_PREFIX)
                 /\ Len(ret.message) > Len(MSG_DB_ERROR_PREFIX)
                 /\ ret.message # MSG_READONLY_PAYLOAD

\* a valid call that met a file it could not write
C8_Witness ==
    /\ AddFailed(ret)
    /\ ret.cause = "readonly"
    /\ ValidCall(ret.args)
    /\ rows # {}

-----------------------------------------------------------------------------
(* C9 *)

\* a required argument is None, or the amount is not a number
CallerError(a) ==
    \/ a.date = PyNone
    \/ a.amount = PyNone
    \/ a.category = PyNone
    \/ a.amount.t \notin {"int", "float"}

\* C9: an add_expense call with a missing (None) date, amount or category,
\* or with a non-numeric amount, returns the error payload and leaves the
\* stored rows as they were.
C9_CallerErrorsRejected ==
    [][(AddReturned(ret') /\ CallerError(ret'.args)) =>
           (ret'.status = "error" /\ rows' = rows)]_vars

-----------------------------------------------------------------------------
(* C10 *)

OpenRows == {txn[t].row : t \in {u \in Tasks : txn[u].open}}

\* C10: a row shows in a list_expenses or summarize result only once its
\* add_expense has committed, and then whole; a failed add_expense leaves the
\* stored rows as they were; a successful one has exactly one row stored under
\* its id; at most one add_expense holds an open transaction; and while one
\* does, a list_expenses call can still run to its result.
C10_NoPartialWrites ==
    /\ [](/\ ListReturned(ret) =>
               /\ \A i \in DOMAIN ret.value : \E r \in rows : RowDict(r) = ret.value[i]
               /\ \A i \in DOMAIN ret.value :
                      \A o \in OpenRows : ret.value[i].id # o.id
          /\ SummarizeReturned(ret) =>
               \A i \in DOMAIN ret.value :
                   ret.value[i].count =
                       Cardinality({r \in RowsInRange(ret.args[1], ret.args[2]) :
                                       FromSql(r.category) = ret.value[i].category})
          /\ AddSucceeded(ret) => Cardinality({r \in rows : r.id = ret.id}) = 1
          /\ Cardinality({t \in Tasks : txn[t].open}) <= 1
          /\ (serving /\ ret = NoRet /\ WriteLockHeld) =>
               ENABLED (\E s \in DateArgs, e \in DateArgs :
                            list_expenses(s, e, "none")))
    /\ [][/\ AddFailed(ret') => rows' = rows
          /\ AddSucceeded(ret') => Cardinality(rows') = Cardinality(rows) + 1]_vars

\* a list_expenses result returned while an add_expense holds an uncommitted
\* row dated inside the range
C10_Witness ==
    /\ ListReturned(ret)
    /\ ret.value # <<>>
    /\ \E o \in OpenRows : InRange(o.date.s, ret.args[1].s, ret.args[2].s)
====
